---- MODULE Spec2Model ----
(***************************************************************************)
(* Model of the bird's-eye-view engine of data_collection/BEV_sample.py:   *)
(* BEVWrapper (world_to_pixel, draw_actor_layers, draw_road_layers,        *)
(* get_bev_data) and BEVSample (get_BEV, CNN_Encoder, visulize_bev).       *)
(*                                                                         *)
(* Lengths are integers in units of 1/UnitsPerMeter metre (a quarter of a  *)
(* pixel at 20 pixels per metre), so that the value handed to int() is a   *)
(* fixed-point number and int() is a truncation toward zero.  Yaw is a     *)
(* multiple of 90 degrees; cos and sin of these angles are taken as        *)
(* exactly 0 and +-1.                                                      *)
(***************************************************************************)
EXTENDS Integers, Sequences, FiniteSets, TLC

VARIABLES
    cfg,             \* BEVWrapper.config (size, BEV_range, pixels_per_meter)
    map,             \* the static map the world serves lane types from
    hero_tf,         \* transform of the hero actor in the world
    vehicle,         \* location of the vehicle actor, or None when not spawned
    walker,          \* location of the second walker
    hero_actor,      \* BEVWrapper.hero_actor (actor id, or None)
    actor_list,      \* BEVWrapper.actor_list (ids of the fetched handles, or None)
    layers,          \* dictionary returned by the latest get_bev_data of this tick, or None
    feature_tensor,  \* BEVSample.feature_tensor, or None
    model_input,     \* tensor handed to the model by CNN_Encoder since the last tick
    tensor_fresh,    \* history: feature_tensor was captured since the last tick
    captures,        \* history: get_bev_data calls since the last tick, up to MaxCaptures
    same,            \* history: every capture of this tick returned what the one before did
    probe,           \* latest direct world_to_pixel call: target and results
    \* one get_BEV call taken statement by statement, the simulator running
    actor,           \* BEVSample.actor (actor id, or NoActor)
    library,         \* what get_transform of a destroyed actor does in this build
    alive,           \* the hero actor exists in the simulator
    pc,              \* position of the call
    row,             \* index of the next x of the outer loop of draw_road_layers
    hero_transform,  \* local hero_transform of draw_road_layers, or None
    lane_canvas,     \* local lane_canvas of draw_road_layers, or None
    sidewalks_canvas, \* local sidewalks_canvas of draw_road_layers, or None
    vehicle_canvas,  \* the 'vehicle' value of the dictionary being built, or None
    reads,           \* history: hero_actor.get_transform() calls of this call
    poses,           \* history: the transforms those calls returned
    moves,           \* history: pose changes of the hero during this call
    missing,         \* history: the hero was absent or not alive when the call began
    \* draw_actor_layers on its own
    crowd,           \* further actors present in the world
    drawn,           \* latest direct draw_actor_layers call: type and canvas, or None
    \* refresh_simulation_if_needed of intersection_sim.py
    clock,           \* the wall clock time.time() reads, in seconds
    current_time,    \* local current_time of the latest iteration
    start_time,      \* local start_time, the round timer
    stuck_tracker,   \* local stuck_tracker: vehicle id -> time its entry was created
    round,           \* number of refreshes so far; each spawns vehicles with new ids
    loop_pc,         \* position in the loop: "loop" (line 27) or "refresh" (line 74)
    reason,          \* local reason of the latest iteration
    stuck,           \* history: the vehicles the latest iteration counted, with their entries
    slow_run,        \* history: seconds each vehicle has been slow at every iteration
    refreshed        \* history: the latest step was the refresh of lines 75-87

bevvars == <<cfg, map, hero_tf, vehicle, walker, hero_actor, actor_list, layers,
             feature_tensor, model_input, tensor_fresh, captures, same, probe>>

stepvars == <<actor, library, alive, pc, row, hero_transform, lane_canvas,
              sidewalks_canvas, vehicle_canvas, reads, poses, moves, missing>>

drawvars == <<crowd, drawn>>

simvars == <<clock, current_time, start_time, stuck_tracker, round, loop_pc,
             reason, stuck, slow_run, refreshed>>

\* The variables the whole-call operations of BEVSample leave alone.
othervars == <<stepvars, drawvars, simvars>>

\* The variables the statements of a followed call leave alone.
besides_steps == <<drawvars, simvars>>

vars == <<bevvars, othervars>>

\* An attribute that is None holds the empty tuple and one that is set holds
\* the one-element tuple of its value.
None == <<>>
Some(v) == <<v>>
the(opt) == opt[1]

\* The absence of a waypoint.
NoWaypoint == "None"

----------------------------------------------------------------------------
(* Configuration                                                           *)

\* BEVWrapper.config, the class default.
DefaultConfig == [size |-> <<320, 320>>, BEV_range |-> 16, pixels_per_meter |-> 20]

\* A cfg argument of BEVWrapper(cfg, world) with the same scale and the same
\* relation size = BEV_range * pixels_per_meter, on a 1 m window.
SmallConfig == [size |-> <<20, 20>>, BEV_range |-> 1, pixels_per_meter |-> 20]

\* An odd-sized canvas, to exercise width // 2.
OddConfig == [size |-> <<21, 21>>, BEV_range |-> 1, pixels_per_meter |-> 20]

UnitsPerMeter == 4 * 20

\* step_size = 0.1 metre
step_size == [num |-> 1, den |-> 10]

\* step_size in length units
step_units == (step_size.num * UnitsPerMeter) \div step_size.den

width(c)  == c.size[1]
height(c) == c.size[2]

----------------------------------------------------------------------------
(* Arithmetic                                                              *)

\* int(v) for the fixed-point value num/den: truncation toward zero.
int(num, den) == IF num >= 0 THEN num \div den ELSE -((-num) \div den)

\* np.cos / np.sin of an angle given in degrees (multiples of 90).
cos(deg) == CASE deg % 360 = 0   -> 1
              [] deg % 360 = 90  -> 0
              [] deg % 360 = 180 -> -1
              [] deg % 360 = 270 -> 0

sin(deg) == CASE deg % 360 = 0   -> 0
              [] deg % 360 = 90  -> 1
              [] deg % 360 = 180 -> 0
              [] deg % 360 = 270 -> -1

----------------------------------------------------------------------------
(* BEVWrapper.world_to_pixel                                               *)

\* faulty variant: the hero's location is not subtracted
hero_relative_NoTranslate(tf, target) ==
    LET dx == target[1]
        dy == target[2]
        rad == -tf.yaw
    IN  << -dx * cos(rad) + dy * sin(rad), dx * sin(rad) + dy * cos(rad) >>

\* faulty variant: rx without its leading minus sign
hero_relative_Unmirrored(tf, target) ==
    LET dx == target[1] - tf.x
        dy == target[2] - tf.y
        rad == -tf.yaw
    IN  << dx * cos(rad) + dy * sin(rad), dx * sin(rad) + dy * cos(rad) >>

\* faulty variant: rad = radians(hero_yaw), the negation dropped
hero_relative_PlusYaw(tf, target) ==
    LET dx == target[1] - tf.x
        dy == target[2] - tf.y
        rad == tf.yaw
    IN  << -dx * cos(rad) + dy * sin(rad), dx * sin(rad) + dy * cos(rad) >>

\* (rx, ry): the target relative to the hero, rotated by -yaw.
hero_relative(tf, target) ==
    LET dx == target[1] - tf.x
        dy == target[2] - tf.y
        rad == -tf.yaw
    IN  << -dx * cos(rad) + dy * sin(rad), dx * sin(rad) + dy * cos(rad) >>

\* The two values handed to int(), as numerators over UnitsPerMeter:
\* width // 2 + rx * pixel_per_meter and height // 2 - ry * pixel_per_meter.
scaled(c, r) ==
    << (width(c) \div 2) * UnitsPerMeter + r[1] * c.pixels_per_meter,
       (height(c) \div 2) * UnitsPerMeter - r[2] * c.pixels_per_meter >>

pixel_of(c, r) ==
    << int(scaled(c, r)[1], UnitsPerMeter), int(scaled(c, r)[2], UnitsPerMeter) >>

world_to_pixel(c, tf, target) == pixel_of(c, hero_relative(tf, target))

----------------------------------------------------------------------------
(* The simulator: actors, hero transform, map                              *)

HeroId == 1
VehicleId == 2
WalkerId == 3
LightId == 4

\* Further actors the simulator may hold: a vehicle one pixel from the edge
\* of the window of a hero at the origin, a vehicle far away, a walker
\* standing where that hero stands and a walker two pixels from it.
Pool ==
    { [id |-> 5, type_id |-> <<"vehicle", "audi">>, location |-> <<36, 0>>],
      [id |-> 6, type_id |-> <<"vehicle", "bmw">>, location |-> <<-60, 0>>],
      [id |-> 8, type_id |-> <<"walker", "pedestrian">>, location |-> <<0, 0>>],
      [id |-> 9, type_id |-> <<"walker", "pedestrian">>, location |-> <<8, 0>>] }

\* The world the wrapper reads in one call: hero transform and actor places.
Snapshot == [hero_tf |-> hero_tf, vehicle |-> vehicle, walker |-> walker, crowd |-> crowd]

\* world.get_actors(): the actors present, each with type id and location.
get_actors(w) ==
    { [id |-> HeroId, type_id |-> <<"walker", "pedestrian">>,
       location |-> <<w.hero_tf.x, w.hero_tf.y>>],
      [id |-> WalkerId, type_id |-> <<"walker", "pedestrian">>, location |-> w.walker],
      [id |-> LightId, type_id |-> <<"traffic", "traffic_light">>, location |-> <<4, 4>>] }
    \cup (IF w.vehicle = None THEN {}
          ELSE {[id |-> VehicleId, type_id |-> <<"vehicle", "tesla">>,
                 location |-> w.vehicle]})
    \cup w.crowd

\* actor.get_location() through a handle of the list; a handle whose actor
\* is gone answers the origin.
get_location(w, id) ==
    IF \E a \in get_actors(w) : a.id = id
    THEN (CHOOSE a \in get_actors(w) : a.id = id).location
    ELSE <<0, 0>>

type_of(id) == IF \E a \in Pool : a.id = id
               THEN (CHOOSE a \in Pool : a.id = id).type_id[1]
               ELSE IF id = VehicleId THEN "vehicle"
               ELSE IF id = LightId THEN "traffic" ELSE "walker"

\* ActorList.filter(actor_type + ".*")
filter(list, actor_type) == {id \in list : type_of(id) = actor_type}

\* Rounding of the float32 arithmetic of Transform.transform for the sample
\* vec at a hero pose: the exact point moved by at most one unit per axis.
\* The zero vector has no products to round and gives the hero's location.
fround(pattern, vec) ==
    LET i == vec[1] \div step_units
        j == vec[2] \div step_units
    IN  CASE pattern = "exact" \/ vec = <<0, 0>> -> <<0, 0>>
          [] pattern = "low"   -> <<-1, -1>>
          [] pattern = "mixed" -> <<((i + j) % 3) - 1, ((i + 2 * j) % 3) - 1>>

\* hero_transform.transform(carla.Vector3D(x, y, 0)): local to world.
transform(tf, vec) ==
    << tf.x + vec[1] * cos(tf.yaw) - vec[2] * sin(tf.yaw) + fround(tf.fround, vec)[1],
       tf.y + vec[1] * sin(tf.yaw) + vec[2] * cos(tf.yaw) + fround(tf.fround, vec)[2] >>

\* world.get_map().get_waypoint(location, project_to_road=False,
\* lane_type=Any).lane_type, or NoWaypoint where the map has no lane.
get_waypoint(m, loc) ==
    CASE m = "town" ->
            IF loc[1] < 72 THEN "Driving"
            ELSE IF loc[2] > 26 THEN NoWaypoint
            ELSE IF loc[1] < 88 THEN "Shoulder"
            ELSE IF loc[1] < 104 THEN "Sidewalk"
            ELSE IF loc[1] < 112 THEN "Parking"
            ELSE NoWaypoint

----------------------------------------------------------------------------
(* Canvases                                                                *)

\* Cells <<row, col>> of an array of shape (width, height).
Cells(c) == (0 .. width(c) - 1) \X (0 .. height(c) - 1)

\* np.zeros((self.width, self.height), dtype=np.uint8)
zeros(c) == [cell \in Cells(c) |-> 0]

\* The cells cv2.circle(canvas, (px, py), radius, color, thickness=-1) fills.
circle(p, radius) ==
    { cell \in (p[2] - radius .. p[2] + radius) \X (p[1] - radius .. p[1] + radius) :
        (cell[1] - p[2]) * (cell[1] - p[2]) + (cell[2] - p[1]) * (cell[2] - p[1])
            <= radius * radius }

\* The cells cv2.rectangle(canvas, pt1, pt2, color, thickness=-1) fills.
rectangle(pt1, pt2) == (pt1[2] .. pt2[2]) \X (pt1[1] .. pt2[1])

\* faulty variant: the color is blended with what the canvas holds
paint_Blended(canvas, footprint, color) ==
    [cell \in DOMAIN canvas |->
        IF cell \in footprint THEN (canvas[cell] + color) \div 2 ELSE canvas[cell]]

\* Writing color into the cells of a footprint that lie on the canvas.
paint(canvas, footprint, color) ==
    [cell \in DOMAIN canvas |-> IF cell \in footprint THEN color ELSE canvas[cell]]

\* faulty variant: coordinates are clamped onto the canvas, so the test always passes
in_bounds_Clamped(c, p) == TRUE

\* 0 <= px < self.width and 0 <= py < self.height
in_bounds(c, p) == /\ 0 <= p[1] /\ p[1] < width(c)
                   /\ 0 <= p[2] /\ p[2] < height(c)

----------------------------------------------------------------------------
(* BEVWrapper.draw_actor_layers                                            *)

\* faulty variant: the hero is not skipped
actor_centres_WithHero(c, w, hero, list, actor_type) ==
    { world_to_pixel(c, w.hero_tf, get_location(w, id)) :
        id \in { a \in filter(list, actor_type) :
                   in_bounds(c, world_to_pixel(c, w.hero_tf, get_location(w, a))) } }

\* The pixels of the actors of one type that get a disk: every actor of the
\* list but the hero whose pixel passes the bounds test.
actor_centres(c, w, hero, list, actor_type) ==
    { world_to_pixel(c, w.hero_tf, get_location(w, id)) :
        id \in { a \in filter(list, actor_type) :
                   /\ a # hero
                   /\ in_bounds(c, world_to_pixel(c, w.hero_tf, get_location(w, a))) } }

draw_actor_layers(c, w, hero, list, actor_type) ==
    paint(zeros(c),
          UNION { circle(p, 3) : p \in actor_centres(c, w, hero, list, actor_type) },
          255)

----------------------------------------------------------------------------
(* BEVWrapper.draw_road_layers                                             *)

\* search_range = self.bev_range / 2, in length units
search_range(c) == (c.BEV_range * UnitsPerMeter) \div 2

\* np.arange(-search_range, search_range, step_size):
\* ceil((stop - start) / step) values start + i * step
arange(c) ==
    LET n == (2 * search_range(c) + step_units - 1) \div step_units
    IN  { -search_range(c) + i * step_units : i \in 0 .. n - 1 }

\* brush_size = int(step_size * self.pixel_per_meter) + 1
brush_size(c) == int(step_size.num * c.pixels_per_meter, step_size.den) + 1

\* faulty variant: a brush a quarter of brush_size to each side
brush_half_Quarter(c) == brush_size(c) \div 4

\* brush_size // 2, the reach of the brush to each side of the sample's pixel
brush_half(c) == brush_size(c) \div 2

\* faulty variant: Shoulder is routed to the lane layer
layer_of_ShoulderAsLane(lane_type) ==
    IF lane_type = "Driving" \/ lane_type = "Shoulder" THEN "lane"
    ELSE IF lane_type = "Sidewalk" THEN "sidewalk"
    ELSE "none"

\* The layer a lane type is routed to, or "none" when it is discarded.
layer_of(lane_type) ==
    IF lane_type = "Driving" THEN "lane"
    ELSE IF lane_type = "Sidewalk" \/ lane_type = "Shoulder" THEN "sidewalk"
    ELSE "none"

\* One sample of the double loop: the local vector, its world location, the
\* lane type of the waypoint there and the pixel of the location.
sample(c, w, m, vec) ==
    LET world_location == transform(w.hero_tf, vec)
    IN  [vec |-> vec,
         world_location |-> world_location,
         lane_type |-> get_waypoint(m, world_location),
         pixel |-> world_to_pixel(c, w.hero_tf, world_location)]

samples(c, w, m) == { sample(c, w, m, vec) : vec \in arange(c) \X arange(c) }

\* The samples stamped on one layer: a waypoint exists, the pixel passes the
\* bounds test and the lane type is routed to that layer.
stamped(c, w, m, layer) ==
    { s \in samples(c, w, m) :
        /\ s.lane_type # NoWaypoint
        /\ in_bounds(c, s.pixel)
        /\ layer_of(s.lane_type) = layer }

brush(c, p) == rectangle(<<p[1] - brush_half(c), p[2] - brush_half(c)>>,
                         <<p[1] + brush_half(c), p[2] + brush_half(c)>>)

\* One of the two canvases draw_road_layers returns.
draw_road_layer(c, w, m, layer) ==
    paint(zeros(c), UNION { brush(c, s.pixel) : s \in stamped(c, w, m, layer) }, 255)

draw_road_layers(c, w, m) ==
    << draw_road_layer(c, w, m, "lane"), draw_road_layer(c, w, m, "sidewalk") >>

----------------------------------------------------------------------------
(* BEVWrapper.get_bev_data and BEVSample.get_BEV                           *)

\* faulty variant: the list fetched by an earlier call is kept
fetch_actors_Cached(cached, w) ==
    IF cached = None THEN {a.id : a \in get_actors(w)} ELSE the(cached)

\* self.actor_list = self.world.get_actors()
fetch_actors(cached, w) == {a.id : a \in get_actors(w)}

\* The dictionary get_bev_data returns, as key/value entries in the storage
\* order keys (a permutation of the four layer names).
get_bev_data(c, w, m, hero, list, keys) ==
    LET road == draw_road_layers(c, w, m)
        value(k) == CASE k = "lane" -> road[1]
                      [] k = "sidewalk" -> road[2]
                      [] k = "vehicle" -> draw_actor_layers(c, w, hero, list, "vehicle")
                      [] k = "pedestrian" -> draw_actor_layers(c, w, hero, list, "walker")
    IN  [i \in 1 .. Len(keys) |-> <<keys[i], value(keys[i])>>]

\* layers[key]
lookup(dict, key) == (CHOOSE i \in DOMAIN dict : dict[i][1] = key)

item(dict, key) == dict[lookup(dict, key)][2]

\* faulty variant: the values are stacked in the order the dictionary stores them
stack_ByStorage(dict) ==
    [cell \in DOMAIN dict[1][2] |->
        <<dict[1][2][cell], dict[2][2][cell], dict[3][2][cell], dict[4][2][cell]>>]

\* np.stack([layers['lane'], layers['sidewalk'], layers['vehicle'],
\*           layers['pedestrian']], axis=-1)
stack(dict) ==
    [cell \in DOMAIN item(dict, "lane") |->
        <<item(dict, "lane")[cell], item(dict, "sidewalk")[cell],
          item(dict, "vehicle")[cell], item(dict, "pedestrian")[cell]>>]

\* Channel i of a stacked tensor.
channel(tensor, i) == [cell \in DOMAIN tensor |-> tensor[cell][i]]

----------------------------------------------------------------------------
(* Variables of the other specifications at rest                           *)

\* The id standing for hero_actor = None / actor = None.
NoActor == 0

\* No statement-by-statement call is under way.
StepsIdle ==
    /\ actor = HeroId
    /\ library = "answers"
    /\ alive = TRUE
    /\ pc = "idle"
    /\ row = 0
    /\ hero_transform = None
    /\ lane_canvas = None
    /\ sidewalks_canvas = None
    /\ vehicle_canvas = None
    /\ reads = 0
    /\ poses = {}
    /\ moves = 0
    /\ missing = FALSE

\* No direct draw_actor_layers call was made and the world holds no further actors.
DrawIdle ==
    /\ crowd = {}
    /\ drawn = None

\* refresh_simulation_if_needed has not been entered.
SimIdle ==
    /\ clock = 0
    /\ current_time = 0
    /\ start_time = 0
    /\ stuck_tracker = <<>>
    /\ round = 0
    /\ loop_pc = "loop"
    /\ reason = ""
    /\ stuck = {}
    /\ slow_run = <<>>
    /\ refreshed = FALSE

OthersIdle == StepsIdle /\ DrawIdle /\ SimIdle

----------------------------------------------------------------------------
(* Inputs                                                                  *)

\* Hero transforms the world moves the hero through, each with the way the
\* float32 arithmetic of Transform.transform rounds at that pose.
HeroPoses ==
    { [x |-> 0, y |-> 0, yaw |-> 0, fround |-> "exact"],
      [x |-> 0, y |-> 0, yaw |-> 90, fround |-> "low"],
      [x |-> 100, y |-> -4, yaw |-> 180, fround |-> "mixed"],
      [x |-> 100, y |-> -4, yaw |-> 270, fround |-> "exact"],
      [x |-> 68, y |-> -4, yaw |-> 180, fround |-> "exact"] }

\* Places of the vehicle: half a pixel beyond the canvas edge of a hero at
\* the origin, and inside the canvas of a hero at (100, -4).
VehicleSpots == { <<42, 0>>, <<90, 10>> }

WalkerSpots == { <<16, -22>> }

Maps == { "town" }

\* Captures counted per tick.
MaxCaptures == 2

\* Orders in which the returned dictionary may store its four keys.
layerOrder == <<"lane", "sidewalk", "vehicle", "pedestrian">>

DictOrders == { layerOrder, <<"pedestrian", "vehicle", "sidewalk", "lane">> }

----------------------------------------------------------------------------
(* Operations                                                              *)

Init ==
    /\ cfg = SmallConfig
    /\ map \in Maps
    /\ hero_tf \in HeroPoses
    /\ vehicle \in VehicleSpots \cup {None}
    /\ walker \in WalkerSpots
    /\ hero_actor = HeroId
    /\ actor_list = None
    /\ layers = None
    /\ feature_tensor = None
    /\ model_input = None
    /\ tensor_fresh = FALSE
    /\ captures = 0
    /\ same = TRUE
    /\ probe = None
    /\ OthersIdle

\* world.tick(): the simulator moves the hero and the actors; what the calls
\* of the tick before returned is gone.
tick ==
    /\ hero_tf' \in HeroPoses
    /\ vehicle' \in VehicleSpots \cup {None}
    /\ walker' \in WalkerSpots
    /\ layers' = None
    /\ model_input' = None
    /\ tensor_fresh' = FALSE
    /\ captures' = 0
    /\ same' = TRUE
    /\ UNCHANGED <<cfg, map, hero_actor, actor_list, feature_tensor, probe>>
    /\ UNCHANGED othervars

\* The values of a dictionary by key, whatever its storage order.
by_key(dict) == [k \in {dict[i][1] : i \in DOMAIN dict} |-> dict[CHOOSE i \in DOMAIN dict : dict[i][1] = k][2]]

\* One call of BEVWrapper.get_bev_data with the hero the wrapper points at.
capture(hero, keys) ==
    /\ actor_list' = Some(fetch_actors(actor_list, Snapshot))
    /\ layers' = get_bev_data(cfg, Snapshot, map, hero, the(actor_list'), keys)
    /\ captures' = IF captures < MaxCaptures THEN captures + 1 ELSE captures
    /\ same' = (same /\ (layers # None => by_key(layers') = by_key(layers)))

\* BEVSample.get_BEV
get_BEV ==
    /\ hero_actor' = HeroId
    /\ \E keys \in DictOrders : capture(hero_actor', keys)
    /\ feature_tensor' = Some(stack(layers'))
    /\ tensor_fresh' = TRUE
    /\ UNCHANGED <<cfg, map, hero_tf, vehicle, walker, model_input, probe>>
    /\ UNCHANGED othervars

\* BEVSample.visulize_bev: a capture that leaves feature_tensor alone.
visulize_bev ==
    /\ \E keys \in DictOrders : capture(hero_actor, keys)
    /\ UNCHANGED <<cfg, map, hero_tf, vehicle, walker, hero_actor, feature_tensor,
                   model_input, tensor_fresh, probe>>
    /\ UNCHANGED othervars

\* BEVSample.CNN_Encoder(model): captures only when no tensor is held.
CNN_Encoder ==
    \/ /\ feature_tensor = None
       /\ hero_actor' = HeroId
       /\ \E keys \in DictOrders : capture(hero_actor', keys)
       /\ feature_tensor' = Some(stack(layers'))
       /\ tensor_fresh' = TRUE
       /\ model_input' = feature_tensor'
       /\ UNCHANGED <<cfg, map, hero_tf, vehicle, walker, probe>>
       /\ UNCHANGED othervars
    \/ /\ feature_tensor # None
       /\ model_input' = feature_tensor
       /\ UNCHANGED <<cfg, map, hero_tf, vehicle, walker, hero_actor, actor_list, layers,
                      feature_tensor, tensor_fresh, captures, same, probe>>
       /\ UNCHANGED othervars

Next == tick \/ get_BEV \/ visulize_bev \/ CNN_Encoder

Spec == Init /\ [][Next]_vars

----------------------------------------------------------------------------
(* One get_BEV call statement by statement.  The simulator is another      *)
(* process (intersection_sim ticks the world and destroys the walkers on   *)
(* a refresh), so the hero can move or vanish between two statements.      *)

\* What a destroyed actor's handle answers when the library does not raise.
OriginTransform == [x |-> 0, y |-> 0, yaw |-> 0, fround |-> "exact"]

\* self.hero_actor.get_transform(): the transform returned, or None when the
\* call raises (AttributeError on None; RuntimeError where the library
\* refuses a destroyed actor).
get_transform(hero, tf, live, lib) ==
    IF hero = NoActor THEN None
    ELSE IF live THEN Some(tf)
    ELSE IF lib = "raises" THEN None
    ELSE Some(OriginTransform)

\* The i-th value of np.arange(-search_range, search_range, step_size).
x_at(c, i) == -search_range(c) + i * step_units

rows(c) == Cardinality(arange(c))

\* One sample of the inner loop: world_location from the local
\* hero_transform, the pixel from the transform world_to_pixel reads.
sample_at(c, local, now, m, vec) ==
    LET world_location == transform(local, vec)
    IN  [vec |-> vec,
         world_location |-> world_location,
         lane_type |-> get_waypoint(m, world_location),
         pixel |-> world_to_pixel(c, now, world_location)]

\* The samples of row i for which the map has a waypoint.
row_waypoints(c, local, now, m, i) ==
    { s \in { sample_at(c, local, now, m, <<x_at(c, i), y>>) : y \in arange(c) } :
        s.lane_type # NoWaypoint }

\* The canvas of one layer after the inner loop of row i.
row_painted(c, canvas, local, now, m, i, layer) ==
    paint(canvas,
          UNION { brush(c, s.pixel) :
                    s \in { t \in row_waypoints(c, local, now, m, i) :
                              in_bounds(c, t.pixel) /\ layer_of(t.lane_type) = layer } },
          255)

\* The actors of one type draw_actor_layers calls world_to_pixel for.
drawn_actors(hero, list, actor_type) == filter(list, actor_type) \ {hero}

\* The dictionary get_bev_data builds, in the order of its literal.
bev_dict(lane, sidewalk, veh, ped) ==
    << <<"lane", lane>>, <<"sidewalk", sidewalk>>, <<"vehicle", veh>>, <<"pedestrian", ped>> >>

\* Pose changes of the hero counted during one call.
MaxMoves == 1

\* The poses the hero takes while a call is followed statement by statement.
StepPoses == {tf \in HeroPoses : tf.fround # "exact" \/ tf.x = 0}

InitSteps ==
    /\ cfg = SmallConfig
    /\ map = "town"
    /\ hero_tf \in StepPoses
    /\ vehicle \in VehicleSpots
    /\ walker \in WalkerSpots
    /\ actor \in {HeroId, NoActor}
    /\ hero_actor = actor
    /\ actor_list = None
    /\ layers = None
    /\ feature_tensor = None
    /\ model_input = None
    /\ tensor_fresh = FALSE
    /\ captures = 0
    /\ same = TRUE
    /\ probe = None
    /\ library \in {"answers", "raises"}
    /\ alive = TRUE
    /\ pc = "idle"
    /\ row = 0
    /\ hero_transform = None
    /\ lane_canvas = None
    /\ sidewalks_canvas = None
    /\ vehicle_canvas = None
    /\ reads = 0
    /\ poses = {}
    /\ moves = 0
    /\ missing = FALSE
    /\ DrawIdle
    /\ SimIdle

\* An exception leaves get_BEV: the locals are gone, nothing is assigned.
raise_error ==
    /\ pc' = "raised"
    /\ hero_transform' = None
    /\ lane_canvas' = None
    /\ sidewalks_canvas' = None
    /\ vehicle_canvas' = None

\* get_BEV up to the loops of draw_road_layers: hero_actor = actor, the actor
\* list is fetched, the canvases are made and hero_transform is read.
begin_get_BEV ==
    /\ UNCHANGED besides_steps
    /\ pc = "idle"
    /\ hero_actor' = actor
    /\ actor_list' = Some(fetch_actors(actor_list, Snapshot))
    /\ missing' = (actor = NoActor \/ ~alive)
    /\ LET got == get_transform(actor, hero_tf, alive, library)
       IN  IF got = None
           THEN raise_error /\ UNCHANGED <<reads, poses>>
           ELSE /\ pc' = "road"
                /\ hero_transform' = got
                /\ lane_canvas' = Some(zeros(cfg))
                /\ sidewalks_canvas' = Some(zeros(cfg))
                /\ vehicle_canvas' = None
                /\ reads' = 1
                /\ poses' = {the(got)}
    /\ UNCHANGED <<cfg, map, hero_tf, vehicle, walker, layers, feature_tensor,
                   model_input, tensor_fresh, captures, same, probe,
                   actor, library, alive, row, moves>>

\* One pass of the outer loop: the inner loop over y for x = x_at(row).
\* world_to_pixel reads the hero's transform for every sample with a waypoint.
road_row ==
    /\ UNCHANGED besides_steps
    /\ pc = "road"
    /\ LET got == get_transform(hero_actor, hero_tf, alive, library)
           local == the(hero_transform)
           now == IF got = None THEN local ELSE the(got)
           found == row_waypoints(cfg, local, now, map, row)
       IN  IF found # {} /\ got = None
           THEN raise_error /\ UNCHANGED <<row, reads, poses>>
           ELSE /\ lane_canvas' =
                     Some(row_painted(cfg, the(lane_canvas), local, now, map, row, "lane"))
                /\ sidewalks_canvas' =
                     Some(row_painted(cfg, the(sidewalks_canvas), local, now, map, row, "sidewalk"))
                /\ row' = row + 1
                /\ pc' = IF row + 1 = rows(cfg) THEN "vehicle" ELSE "road"
                /\ reads' = reads + Cardinality(found)
                /\ poses' = IF found = {} THEN poses ELSE poses \cup {now}
                /\ UNCHANGED <<hero_transform, vehicle_canvas>>
    /\ UNCHANGED <<bevvars, actor, library, alive, moves, missing>>

\* 'vehicle': self.draw_actor_layers('vehicle')
draw_vehicles ==
    /\ UNCHANGED besides_steps
    /\ pc = "vehicle"
    /\ LET got == get_transform(hero_actor, hero_tf, alive, library)
           now == IF got = None THEN the(hero_transform) ELSE the(got)
           whom == drawn_actors(hero_actor, the(actor_list), "vehicle")
       IN  IF whom # {} /\ got = None
           THEN raise_error /\ UNCHANGED <<reads, poses>>
           ELSE /\ vehicle_canvas' =
                     Some(draw_actor_layers(cfg, [Snapshot EXCEPT !.hero_tf = now],
                                            hero_actor, the(actor_list), "vehicle"))
                /\ pc' = "pedestrian"
                /\ reads' = reads + Cardinality(whom)
                /\ poses' = IF whom = {} THEN poses ELSE poses \cup {now}
                /\ UNCHANGED <<hero_transform, lane_canvas, sidewalks_canvas>>
    /\ UNCHANGED <<bevvars, actor, library, alive, row, moves, missing>>

\* 'pedestrian': self.draw_actor_layers('walker'), the dictionary is returned
\* and get_BEV stacks it into feature_tensor.
draw_pedestrians ==
    /\ UNCHANGED besides_steps
    /\ pc = "pedestrian"
    /\ LET got == get_transform(hero_actor, hero_tf, alive, library)
           now == IF got = None THEN the(hero_transform) ELSE the(got)
           whom == drawn_actors(hero_actor, the(actor_list), "walker")
       IN  IF whom # {} /\ got = None
           THEN raise_error /\ UNCHANGED <<reads, poses, layers, feature_tensor, tensor_fresh>>
           ELSE /\ layers' =
                     bev_dict(the(lane_canvas), the(sidewalks_canvas), the(vehicle_canvas),
                              draw_actor_layers(cfg, [Snapshot EXCEPT !.hero_tf = now],
                                                hero_actor, the(actor_list), "walker"))
                /\ feature_tensor' = Some(stack(layers'))
                /\ tensor_fresh' = TRUE
                /\ pc' = "returned"
                /\ hero_transform' = None
                /\ lane_canvas' = None
                /\ sidewalks_canvas' = None
                /\ vehicle_canvas' = None
                /\ reads' = reads + Cardinality(whom)
                /\ poses' = IF whom = {} THEN poses ELSE poses \cup {now}
    /\ UNCHANGED <<cfg, map, hero_tf, vehicle, walker, hero_actor, actor_list,
                   model_input, captures, same, probe,
                   actor, library, alive, row, moves, missing>>

\* The simulator ticks while the call runs: the hero walks on.
hero_moves ==
    /\ UNCHANGED besides_steps
    /\ pc \in {"road", "vehicle", "pedestrian"}
    /\ alive
    /\ moves < MaxMoves
    /\ hero_tf' \in StepPoses \ {hero_tf}
    /\ moves' = moves + 1
    /\ UNCHANGED <<cfg, map, vehicle, walker, hero_actor, actor_list, layers,
                   feature_tensor, model_input, tensor_fresh, captures, same, probe>>
    /\ UNCHANGED <<actor, library, alive, pc, row, hero_transform, lane_canvas,
                   sidewalks_canvas, vehicle_canvas, reads, poses, missing>>

\* cleanup_simulation of the simulator process destroys the walkers.
hero_destroyed ==
    /\ UNCHANGED besides_steps
    /\ pc \in {"idle", "road", "vehicle", "pedestrian"}
    /\ alive
    /\ alive' = FALSE
    /\ UNCHANGED bevvars
    /\ UNCHANGED <<actor, library, pc, row, hero_transform, lane_canvas,
                   sidewalks_canvas, vehicle_canvas, reads, poses, moves, missing>>

NextSteps ==
    \/ begin_get_BEV
    \/ road_row
    \/ draw_vehicles
    \/ draw_pedestrians
    \/ hero_moves
    \/ hero_destroyed

SpecSteps == InitSteps /\ [][NextSteps]_vars

----------------------------------------------------------------------------
(* world_to_pixel on its own                                               *)

ProbeRange == 4

ProbeOffsets == (-ProbeRange .. ProbeRange) \cup {-400, -42, 42, 400}

ProbePoses ==
    { [x |-> p[1], y |-> p[2], yaw |-> a, fround |-> "exact"] :
        p \in { <<0, 0>>, <<3, -7>>, <<-100, 60>> }, a \in {0, 90, 180, 270} }

InitPixel ==
    /\ cfg \in {DefaultConfig, SmallConfig, OddConfig}
    /\ hero_tf \in ProbePoses
    /\ map = "town"
    /\ vehicle = None
    /\ walker = <<0, 0>>
    /\ hero_actor = HeroId
    /\ actor_list = None
    /\ layers = None
    /\ feature_tensor = None
    /\ model_input = None
    /\ tensor_fresh = FALSE
    /\ captures = 0
    /\ same = TRUE
    /\ probe = None
    /\ OthersIdle

\* self.world_to_pixel(target_location) for a target at an offset from the hero
Probe ==
    /\ \E dx \in ProbeOffsets, dy \in ProbeOffsets :
         LET target == <<hero_tf.x + dx, hero_tf.y + dy>>
         IN  probe' = Some([target |-> target,
                            relative |-> hero_relative(hero_tf, target),
                            pixel |-> world_to_pixel(cfg, hero_tf, target)])
    /\ UNCHANGED <<cfg, map, hero_tf, vehicle, walker, hero_actor, actor_list, layers,
                   feature_tensor, model_input, tensor_fresh, captures, same>>
    /\ UNCHANGED othervars

NextPixel == Probe

SpecPixel == InitPixel /\ [][NextPixel]_vars

----------------------------------------------------------------------------
(* draw_actor_layers on its own                                            *)

InitDraw ==
    /\ cfg \in {SmallConfig, OddConfig}
    /\ map = "town"
    /\ hero_tf \in HeroPoses
    /\ vehicle \in {None, <<42, 0>>}
    /\ walker \in WalkerSpots
    /\ hero_actor = HeroId
    /\ actor_list = None
    /\ layers = None
    /\ feature_tensor = None
    /\ model_input = None
    /\ tensor_fresh = FALSE
    /\ captures = 0
    /\ same = TRUE
    /\ probe = None
    /\ StepsIdle
    /\ SimIdle
    /\ crowd \in SUBSET Pool
    /\ drawn = None

\* self.actor_list = self.world.get_actors(); self.draw_actor_layers(actor_type)
Draw ==
    /\ actor_list' = Some(fetch_actors(actor_list, Snapshot))
    /\ \E actor_type \in {"vehicle", "walker"} :
         drawn' = Some([actor_type |-> actor_type,
                        canvas |-> draw_actor_layers(cfg, Snapshot, hero_actor,
                                                     the(actor_list'), actor_type)])
    /\ UNCHANGED <<cfg, map, hero_tf, vehicle, walker, hero_actor, layers,
                   feature_tensor, model_input, tensor_fresh, captures, same, probe>>
    /\ UNCHANGED <<stepvars, simvars, crowd>>

NextDraw == Draw

SpecDraw == InitDraw /\ [][NextDraw]_vars

----------------------------------------------------------------------------
(* intersection_sim.refresh_simulation_if_needed                           *)
(* Times are whole seconds of the wall clock; speeds are in cm/s.          *)

TIMEOUT_LIMIT == 60
STUCK_VELOCITY_THRESHOLD == 10
STUCK_TIME_LIMIT == 5
STUCK_VEHICLE_COUNT_LIMIT == 5
MIN_PEDESTRIANS_IN_INTERSECTION == 8

\* Vehicles a spawn puts into the world.
MaxVehicles == 6

\* The wall clock up to which the loop is followed.
MaxTime == 65

\* Seconds from one reading of time.time() in the loop to the next, and the
\* seconds cleanup and respawn take.
Delays == {5, 10}
RefreshDelays == {0, 5}

\* world.get_actors().filter('vehicle.*') in round r: every spawn creates
\* actors with ids not used before.
all_vehicles(r) == { r * MaxVehicles + k : k \in 1 .. MaxVehicles }

\* Speeds the vehicles show in one iteration: all standing, all driving, the
\* first exactly at the threshold and the rest creeping, the first four
\* standing and the rest driving.
Patterns == {"jam", "flow", "creep", "four"}

speed_in(pattern, v) ==
    LET k == ((v - 1) % MaxVehicles) + 1
    IN  CASE pattern = "jam" -> 0
          [] pattern = "flow" -> 50
          [] pattern = "creep" -> IF k = 1 THEN 10 ELSE 9
          [] pattern = "four" -> IF k <= 4 THEN 0 ELSE 50

\* Walkers within INTERSECTION_DIST of the intersection.
PedCounts == {8, 9}

\* faulty variant: the entry of a vehicle that moves is kept
tracked_ids_KeepOnMove(tracker, speed) ==
    DOMAIN tracker \cup {v \in DOMAIN speed : speed[v] < STUCK_VELOCITY_THRESHOLD}

\* The keys of stuck_tracker after the loop over all_vehicles: those of the
\* slow vehicles, and those the loop does not visit.
tracked_ids(tracker, speed) ==
    {v \in DOMAIN speed : speed[v] < STUCK_VELOCITY_THRESHOLD}
        \cup (DOMAIN tracker \ DOMAIN speed)

\* stuck_tracker after the loop over all_vehicles at time t.
track(tracker, speed, t) ==
    [v \in tracked_ids(tracker, speed) |-> IF v \in DOMAIN tracker THEN tracker[v] ELSE t]

\* The vehicles for which stuck_count is incremented.
counted(tracker, speed, t) ==
    {v \in DOMAIN speed :
        /\ speed[v] < STUCK_VELOCITY_THRESHOLD
        /\ t - track(tracker, speed, t)[v] > STUCK_TIME_LIMIT}

\* reason after lines 60-72; "" when should_refresh stays False.
refresh_reason(elapsed_time, stuck_count, ped_count) ==
    IF elapsed_time > TIMEOUT_LIMIT THEN "TIMEOUT"
    ELSE IF stuck_count >= STUCK_VEHICLE_COUNT_LIMIT THEN "DEADLOCK"
    ELSE IF elapsed_time > 5 /\ ped_count <= MIN_PEDESTRIANS_IN_INTERSECTION
         THEN "LOW PEDESTRIANS"
    ELSE ""

\* A vehicle that was not slow at the latest iteration.
NotSlow == -1

InitSim ==
    /\ cfg = SmallConfig
    /\ map = "town"
    /\ hero_tf = OriginTransform
    /\ vehicle = None
    /\ walker = <<0, 0>>
    /\ hero_actor = HeroId
    /\ actor_list = None
    /\ layers = None
    /\ feature_tensor = None
    /\ model_input = None
    /\ tensor_fresh = FALSE
    /\ captures = 0
    /\ same = TRUE
    /\ probe = None
    /\ StepsIdle
    /\ DrawIdle
    /\ clock = 0
    /\ current_time = 0
    /\ start_time = 0
    /\ stuck_tracker = <<>>
    /\ round = 0
    /\ loop_pc = "loop"
    /\ reason = ""
    /\ stuck = {}
    /\ slow_run = [v \in all_vehicles(0) |-> NotSlow]
    /\ refreshed = FALSE

\* Lines 27-72 of one iteration, and the sleep of line 89 when no refresh
\* is due.
iterate ==
    /\ loop_pc = "loop"
    /\ \E dt \in Delays, pattern \in Patterns, ped_count \in PedCounts :
         LET t == clock + dt
             speed == [v \in all_vehicles(round) |-> speed_in(pattern, v)]
             stuck_now == counted(stuck_tracker, speed, t)
         IN  /\ t <= MaxTime
             /\ clock' = t
             /\ current_time' = t
             /\ stuck_tracker' = track(stuck_tracker, speed, t)
             /\ stuck' = {[id |-> v, since |-> stuck_tracker'[v]] : v \in stuck_now}
             /\ reason' = refresh_reason(t - start_time, Cardinality(stuck_now), ped_count)
             /\ loop_pc' = IF reason' # "" THEN "refresh" ELSE "loop"
             /\ slow_run' =
                  [v \in all_vehicles(round) |->
                     IF speed[v] < STUCK_VELOCITY_THRESHOLD
                     THEN (IF slow_run[v] = NotSlow THEN 0 ELSE slow_run[v] + dt)
                     ELSE NotSlow]
    /\ refreshed' = FALSE
    /\ UNCHANGED <<start_time, round>>
    /\ UNCHANGED <<bevvars, stepvars, drawvars>>

\* Lines 74-89: cleanup, respawn, reset of timer and tracker, sleep.
refresh ==
    /\ loop_pc = "refresh"
    /\ \E d \in RefreshDelays :
         /\ clock + d <= MaxTime
         /\ clock' = clock + d
         /\ start_time' = clock'
    /\ stuck_tracker' = <<>>
    /\ round' = round + 1
    /\ slow_run' = [v \in all_vehicles(round') |-> NotSlow]
    /\ stuck' = {}
    /\ loop_pc' = "loop"
    /\ refreshed' = TRUE
    /\ UNCHANGED <<current_time, reason>>
    /\ UNCHANGED <<bevvars, stepvars, drawvars>>

NextSim == iterate \/ refresh

SpecSim == InitSim /\ [][NextSim]_vars

----------------------------------------------------------------------------
(* Properties of world_to_pixel                                            *)

Centre(c) == <<width(c) \div 2, height(c) \div 2>>

\* C1 (Centering): for every hero position and yaw, world_to_pixel of the
\* hero's own world position is the canvas centre (width // 2, height // 2).
C1_Centering ==
    (probe # None /\ the(probe).target = <<hero_tf.x, hero_tf.y>>)
        => the(probe).pixel = Centre(cfg)

C1_Witness ==
    /\ probe # None
    /\ the(probe).target = <<hero_tf.x, hero_tf.y>>
    /\ hero_tf.x = -100 /\ hero_tf.yaw = 270
    /\ the(probe).pixel = <<160, 160>>

\* The point d ahead of the hero along carla's forward vector (cos yaw, sin yaw).
forward_point(tf, d) == <<tf.x + d * cos(tf.yaw), tf.y + d * sin(tf.yaw)>>

\* Distances ahead that are a whole number of pixels.
ForwardDistances == {d \in ProbeOffsets : d > 0 /\ d % 4 = 0}

\* C2 (Forward is up), as claimed: the point d ahead of the hero maps to
\* (width/2, height/2 - d * pixelsPerMeter) at yaw 0, 90, 180 and 270.
C2_ForwardIsUp ==
    probe # None =>
        \A d \in ForwardDistances :
            the(probe).target = forward_point(hero_tf, d) =>
                the(probe).pixel = <<Centre(cfg)[1],
                                Centre(cfg)[2] - (d * cfg.pixels_per_meter) \div UnitsPerMeter>>

\* C3 (Worked scenario), as claimed: 320x320, 20 px/m, hero at (0,0);
\* yaw 0: (0,5) -> (160,60) and (5,0) -> (260,160); yaw 90: (0,5) -> (260,160).
Metres(n) == n * UnitsPerMeter

InScenario == cfg = DefaultConfig /\ hero_tf.x = 0 /\ hero_tf.y = 0 /\ probe # None

rotate(deg, r) == << r[1] * cos(deg) - r[2] * sin(deg), r[1] * sin(deg) + r[2] * cos(deg) >>

\* (rx, ry) of the probed target for the same hero at yaw 0.
AtYawZero == hero_relative([hero_tf EXCEPT !.yaw = 0], the(probe).target)

----------------------------------------------------------------------------
(* Properties of the captured layers.  tick discards what get_bev_data     *)
(* returned, so a dictionary in layers was drawn from the present world.   *)

LayerNames == {"lane", "sidewalk", "vehicle", "pedestrian"}

non_zero(canvas) == {cell \in DOMAIN canvas : canvas[cell] # 0}

\* C5 (Binary invariant): after any sequence of captures every cell of the
\* four returned layers is 0 or 255.
C5_Binary ==
    layers # None =>
        \A k \in LayerNames : \A cell \in Cells(cfg) : item(layers, k)[cell] \in {0, 255}

C5_Witness ==
    /\ layers # None
    /\ captures = MaxCaptures
    /\ \A k \in {"lane", "sidewalk", "vehicle"} :
          /\ \E cell \in Cells(cfg) : item(layers, k)[cell] = 255
          /\ \E cell \in Cells(cfg) : item(layers, k)[cell] = 0

\* The value handed to int() lies on the canvas: 0 <= v < width, height.
real_in_bounds(c, v) == /\ 0 <= v[1] /\ v[1] < width(c) * UnitsPerMeter
                        /\ 0 <= v[2] /\ v[2] < height(c) * UnitsPerMeter

position(loc) == scaled(cfg, hero_relative(hero_tf, loc))

\* Locations of the actors a point layer is drawn from: all but the hero.
actor_points(k) ==
    { a.location : a \in { b \in get_actors(Snapshot) :
                             /\ b.id # HeroId
                             /\ b.type_id[1] = (IF k = "vehicle" THEN "vehicle" ELSE "walker") } }

\* The cells the points whose position lies on the canvas account for.
explained(k) ==
    IF k \in {"vehicle", "pedestrian"}
    THEN UNION { circle(world_to_pixel(cfg, hero_tf, loc), 3) :
                   loc \in {l \in actor_points(k) : real_in_bounds(cfg, position(l))} }
    ELSE UNION { brush(cfg, s.pixel) :
                   s \in { t \in samples(cfg, Snapshot, map) :
                             /\ layer_of(t.lane_type) = k
                             /\ real_in_bounds(cfg, position(t.world_location)) } }

\* C6 (Out-of-bounds points are dropped), as claimed: a cell of a layer is
\* changed only by a point whose scaled position v satisfies 0 <= v < width
\* and 0 <= v < height; a point outside changes no cell.
C6_DroppedNotClamped ==
    layers # None =>
        \A k \in LayerNames : non_zero(item(layers, k)) \subseteq explained(k)

\* Samples one step apart along x or along y.
adjacent(s, t) ==
    \/ t.vec = <<s.vec[1] + step_units, s.vec[2]>>
    \/ t.vec = <<s.vec[1], s.vec[2] + step_units>>

lo(a, b) == IF a < b THEN a ELSE b
hi(a, b) == IF a < b THEN b ELSE a

\* The cells <<row, col>> between two stamped centres: their bounding box
\* without the centres themselves.
between(p, q) ==
    ((lo(p[2], q[2]) .. hi(p[2], q[2])) \X (lo(p[1], q[1]) .. hi(p[1], q[1])))
        \ {<<p[2], p[1]>>, <<q[2], q[1]>>}

\* Pairs of stamped samples of a layer that are adjacent and of one class.
neighbours(k) ==
    { pair \in stamped(cfg, Snapshot, map, k) \X stamped(cfg, Snapshot, map, k) :
        /\ adjacent(pair[1], pair[2])
        /\ pair[1].lane_type = pair[2].lane_type }

\* C7 (Coverage between neighbours): the brush reaches at least 1 pixel to
\* each side, and between the centres of two stamped samples one step apart
\* and of the same class every pixel is 255 in that class's layer.
C7_NoGapBetweenNeighbours ==
    layers # None =>
        /\ brush_half(cfg) >= 1
        /\ \A k \in {"lane", "sidewalk"} :
              \A pair \in neighbours(k) :
                  \A cell \in between(pair[1].pixel, pair[2].pixel) :
                      item(layers, k)[cell] = 255

\* Two stamped neighbours whose centres lie three pixels apart.
C7_Witness ==
    /\ layers # None
    /\ \E pair \in neighbours("sidewalk") :
          /\ pair[1].lane_type = "Shoulder"
          /\ \/ hi(pair[1].pixel[1], pair[2].pixel[1]) - lo(pair[1].pixel[1], pair[2].pixel[1]) = 3
             \/ hi(pair[1].pixel[2], pair[2].pixel[2]) - lo(pair[1].pixel[2], pair[2].pixel[2]) = 3

AllDriving == \A s \in samples(cfg, Snapshot, map) : s.lane_type = "Driving"

\* C8 (Full coverage), as claimed: when every sample of the window is
\* Driving, every cell of the lane layer is 255, first and last row and
\* column included.
C8_FullCoverage ==
    (layers # None /\ AllDriving) =>
        \A cell \in Cells(cfg) : item(layers, "lane")[cell] = 255

\* What a newly constructed wrapper returns for the present world.
first_capture ==
    get_bev_data(cfg, Snapshot, map, HeroId, fetch_actors(None, Snapshot), layerOrder)

\* C9 (Idempotence): captures that read the same actors, map and hero pose
\* return the same layers, and the layers are those a wrapper without any
\* earlier capture returns for that world.
C9_Idempotent ==
    /\ same
    /\ layers # None => by_key(layers) = by_key(first_capture)

C9_Witness ==
    /\ captures = MaxCaptures
    /\ same
    /\ feature_tensor # None /\ ~tensor_fresh
    /\ vehicle = <<90, 10>> /\ hero_tf.x = 100
    /\ \E cell \in Cells(cfg) : item(layers, "vehicle")[cell] = 255

\* C10 (Channel order): channel i of the tensor get_BEV returns is the layer
\* named layerOrder[i], whatever order the dictionary stores its keys in.
C10_ChannelOrder ==
    (feature_tensor # None /\ tensor_fresh) =>
        \A i \in 1 .. Len(layerOrder) :
            channel(the(feature_tensor), i) = item(layers, layerOrder[i])

C10_Witness ==
    /\ feature_tensor # None /\ tensor_fresh
    /\ layers[1][1] = "pedestrian"
    /\ \A j, k \in LayerNames : j # k => item(layers, j) # item(layers, k)

\* C13 (No stale frame across ticks), as claimed: the tensor CNN_Encoder
\* passes to the model was captured in the tick of the call, never in an
\* earlier tick.
C13_NoStaleFrame ==
    model_input # None => tensor_fresh

----------------------------------------------------------------------------
(* Properties of one call while the simulator runs                         *)

\* The dictionary a call returns when every read of it sees the pose tf.
frame_from(tf) ==
    get_bev_data(cfg, [Snapshot EXCEPT !.hero_tf = tf], map, hero_actor,
                 the(actor_list), layerOrder)

\* C11 (Same-pose frame), as claimed: within one call the hero's transform
\* is read exactly once and the four returned layers are those drawn from
\* that single pose, also when the hero's pose changes while the call runs.
C11_SamePoseFrame ==
    pc = "returned" =>
        /\ reads = 1
        /\ Cardinality(poses) = 1
        /\ \E tf \in poses : by_key(layers) = by_key(frame_from(tf))

\* C12 (MissingHero), as claimed: a call that begins while the hero
\* reference is None or the hero is not alive fails before anything is
\* drawn, returns no frame and leaves feature_tensor as it was.
C12_MissingHero ==
    missing => (pc = "raised" /\ layers = None /\ feature_tensor = None)

----------------------------------------------------------------------------
(* Properties of draw_actor_layers                                         *)

\* The pixel of an actor of the world.
pixel_at(a) == world_to_pixel(cfg, hero_tf, a.location)

\* The actors of the world a layer of the type shows: of that category, not
\* the hero by id, with a pixel on the canvas.
shown(actor_type) ==
    { a \in get_actors(Snapshot) :
        /\ a.type_id[1] = actor_type
        /\ a.id # hero_actor
        /\ in_bounds(cfg, pixel_at(a)) }

\* The cell <<row, col>> lies within radius pixels of the pixel p.
within(cell, p, radius) ==
    (cell[1] - p[2]) * (cell[1] - p[2]) + (cell[2] - p[1]) * (cell[2] - p[1])
        <= radius * radius

----------------------------------------------------------------------------
(* Properties of draw_road_layers                                          *)

\* The array cell of a pixel (px, py).
cell_of(p) == <<p[2], p[1]>>

\* The in-bounds samples the claim sends to a layer.
routed(k) ==
    { s \in samples(cfg, Snapshot, map) :
        /\ in_bounds(cfg, s.pixel)
        /\ s.lane_type \in (IF k = "lane" THEN {"Driving"} ELSE {"Sidewalk", "Shoulder"}) }

\* C16 (Surface routing): every in-bounds sample sets the cell at its pixel
\* to 255 in the lane layer when Driving and in the sidewalk layer when
\* Sidewalk or Shoulder; nothing else writes to these layers (every 255 cell
\* lies under the brush of such a sample); a Driving sample at exactly the
\* hero's location sets the centre cell of the lane layer.
C16_SurfaceRouting ==
    layers # None =>
        /\ \A k \in {"lane", "sidewalk"} :
              /\ \A s \in routed(k) : item(layers, k)[cell_of(s.pixel)] = 255
              /\ non_zero(item(layers, k)) \subseteq
                    UNION { brush(cfg, s.pixel) : s \in routed(k) }
        /\ \A s \in samples(cfg, Snapshot, map) :
              (s.world_location = <<hero_tf.x, hero_tf.y>> /\ s.lane_type = "Driving")
                  => item(layers, "lane")[cell_of(Centre(cfg))] = 255

\* A window holding all five outcomes of the map query, the hero standing on
\* a Driving sample, and an in-bounds sample without waypoint that left both
\* layers 0.
C16_Witness ==
    /\ layers # None
    /\ {s.lane_type : s \in samples(cfg, Snapshot, map)} =
          {"Driving", "Shoulder", "Sidewalk", "Parking", NoWaypoint}
    /\ \E s \in samples(cfg, Snapshot, map) :
          /\ s.world_location = <<hero_tf.x, hero_tf.y>>
          /\ s.lane_type = "Driving"
          /\ s.pixel = Centre(cfg)
    /\ item(layers, "lane")[cell_of(Centre(cfg))] = 255
    /\ \E s \in samples(cfg, Snapshot, map) :
          /\ s.lane_type = NoWaypoint
          /\ in_bounds(cfg, s.pixel)
          /\ item(layers, "lane")[cell_of(s.pixel)] = 0
          /\ item(layers, "sidewalk")[cell_of(s.pixel)] = 0

\* ceil(num / den) for num >= 0
ceil(num, den) == (num + den - 1) \div den

\* The half-width the claim gives: ceil(s * pixelsPerMeter) / 2 + 1
claimed_half(c) == ceil(step_size.num * c.pixels_per_meter, step_size.den) \div 2 + 1

\* The square of cells reaching h pixels to each side of the pixel p.
square(p, h) == rectangle(<<p[1] - h, p[2] - h>>, <<p[1] + h, p[2] + h>>)

\* C17 (Brush size), as claimed: the brush reaches ceil(s * pixelsPerMeter)/2
\* + 1 pixels to each side of a sample's pixel (2 pixels for s = 0.1 m at
\* 20 pixels per metre), so the 255 cells of a surface layer are the squares
\* of that half-width around its stamped samples, clipped to the canvas.
C17_BrushHalfWidth ==
    layers # None =>
        /\ brush_half(cfg) = claimed_half(cfg)
        /\ claimed_half(cfg) = 2
        /\ \A k \in {"lane", "sidewalk"} :
              non_zero(item(layers, k)) =
                  Cells(cfg) \cap UNION { square(s.pixel, claimed_half(cfg)) :
                                            s \in stamped(cfg, Snapshot, map, k) }

----------------------------------------------------------------------------
(* Properties of refresh_simulation_if_needed                              *)

\* C18 (Deadlock detection): a vehicle is counted stuck only if it was slow
\* at every iteration since its tracker entry was created and the entry is
\* more than 5 s old; the reason is DEADLOCK only when at least 5 vehicles
\* were counted in that iteration; a refresh leaves an empty tracker and a
\* round timer set to the present, and no counted entry is older than the
\* round it is counted in.
C18_DeadlockDetection ==
    /\ \A c \in stuck :
          /\ slow_run[c.id] # NotSlow
          /\ current_time - c.since <= slow_run[c.id]
          /\ current_time - c.since > STUCK_TIME_LIMIT
          /\ c.since >= start_time
    /\ (loop_pc = "refresh" /\ reason = "DEADLOCK") =>
          Cardinality(stuck) >= STUCK_VEHICLE_COUNT_LIMIT
    /\ refreshed => (stuck_tracker = <<>> /\ start_time = clock)
    /\ \A v \in DOMAIN stuck_tracker : stuck_tracker[v] >= start_time

\* A deadlock of exactly five vehicles in a round that follows a refresh,
\* with a sixth vehicle at the threshold speed that is not counted.
C18_Witness ==
    /\ loop_pc = "refresh"
    /\ reason = "DEADLOCK"
    /\ round >= 1
    /\ Cardinality(stuck) = STUCK_VEHICLE_COUNT_LIMIT
    /\ \E v \in all_vehicles(round) : v \notin DOMAIN stuck_tracker

====
